---- MODULE Spec2Model ----
(***************************************************************************)
(* Clinical trial demand calculator: clinical_demand.py (product and group *)
(* demand), and the parts of clinical_demand_app.py that aggregate the     *)
(* per-product breakdowns and project them into flat rows.                 *)
(*                                                                         *)
(* Representation.                                                         *)
(*  - A Python str is a sequence of one-character strings, <<"a","_">>.    *)
(*  - A Python dict is a function whose DOMAIN is its key set.             *)
(*  - Amounts (product_amount) are whole milligrams.  A demand is held in  *)
(*    hundredths of a milligram, so that base * (1 + buffer_pct / 100.0)   *)
(*    is the integer base * (100 + buffer_pct): the arithmetic is exact    *)
(*    rational arithmetic; the binary rounding of Python floats is not     *)
(*    modelled.                                                            *)
(*  - None is a dedicated value per type (NoneProduct, NoneDict).          *)
(***************************************************************************)
EXTENDS Integers, Sequences, FiniteSets, TLC

VARIABLES
    pc,                \* position of the run
    params,            \* DosingParams handed to calculate_group_demand
    product,           \* ProductParams handed to calculate_product_demand
    amount,            \* value returned by calculate_product_demand
    group_total,       \* first component returned by calculate_group_demand
    group_by_product,  \* second component returned by calculate_group_demand
    all_groups,        \* main: list of group records
    product_totals,    \* main: per-product totals across all groups
    expanded_rows,     \* main: rows returned by expand_product_rows (+ TOTAL)
    sanitized_map,     \* main: map returned by expand_product_rows
    slots,             \* group_inputs: what the product widgets of the group hold
    text,              \* str handed to slugify
    token,             \* str returned by slugify
    session_state,     \* st.session_state: _show_totals and _prev_num_trials
    widgets,           \* what the widgets of the page hold
    event,             \* the interaction that triggered the run
    totals_rendered,   \* main: the Product Totals Summary was drawn in the run
    last_action        \* the last show or hide action of the user

\* the argument and the result of slugify
slugVars == <<text, token>>

\* the session of the browser and what the last run drew
uiVars == <<session_state, widgets, event, totals_rendered, last_action>>

vars == <<pc, params, product, amount, group_total, group_by_product,
          all_groups, product_totals, expanded_rows, sanitized_map,
          slots, slugVars, uiVars>>

----------------------------------------------------------------------------
(* Bounds of the model *)

MaxProducts == 2      \* longest product list of a group
MaxPatients == 2      \* largest patient count
MaxGroups == 2        \* most group records of one run

(* 100.0 of `buffer_pct / 100.0`: one milligram in demand units *)
Scale == 100

----------------------------------------------------------------------------
(* Python values *)

EmptyDict == [k \in {} |-> 0]

\* None where a dict is expected (a breakdown): no product name has the
\* character "None"
NoneDict == [k \in {<<"None">>} |-> -1]

\* None where a ProductParams is expected
NoneProduct == [kind |-> "None"]

\* the page as it is first served: one trial, Actions on "None", the
\* breakdown box ticked, no product name typed
DefaultWidgets ==
    [num_trials |-> 1, action |-> "None", show_breakdown |-> TRUE,
     product_name |-> <<>>]

\* slugify not called
NoSlugCall == text = <<>> /\ token = <<>>

\* the session as it is when the page is first served; only SpecUI follows
\* it further
NoSession ==
    /\ session_state = EmptyDict
    /\ widgets = DefaultWidgets
    /\ event = "load"
    /\ totals_rendered = FALSE
    /\ last_action = "none"

\* ProductParams(name, product_amount, admin_points, days)
ProductParams(name, product_amount, admin_points, days) ==
    [kind |-> "ProductParams", name |-> name, product_amount |-> product_amount,
     admin_points |-> admin_points, days |-> days]

\* DosingParams(patients, products, buffer_pct)
DosingParams(patients, products, buffer_pct) ==
    [patients |-> patients, products |-> products, buffer_pct |-> buffer_pct]

\* d.get(k, default)
Get(d, k, default) == IF k \in DOMAIN d THEN d[k] ELSE default

\* d[k] = v on a copy of d
DictSet(d, k, v) == [x \in DOMAIN d \cup {k} |-> IF x = k THEN v ELSE d[x]]

\* int(round(x)) of a non-negative x held in hundredths: Python 3 rounds a
\* tie to the even integer
IntRound(x) ==
    LET q == x \div Scale
        r == x % Scale
    IN  IF 2 * r < Scale THEN q
        ELSE IF 2 * r > Scale THEN q + 1
        ELSE IF q % 2 = 0 THEN q ELSE q + 1

----------------------------------------------------------------------------
(* clinical_demand.py *)

calculate_product_demand_rounded(patients, p, buffer_pct) ==
    IntRound(patients * p.product_amount * p.admin_points * p.days
             * (Scale + buffer_pct)) * Scale

calculate_product_demand(patients, p, buffer_pct) ==
    LET base == patients * p.product_amount * p.admin_points * p.days
    IN  base * (Scale + buffer_pct)

\* `if not product`: a dataclass instance is always truthy, so only None
\* is skipped
NotProduct(p) == p = NoneProduct

\* the body of the loop of calculate_group_demand, on the pair
\* (total, by_product)
LoopBody_total_overwritten(acc, patients, p, buffer_pct) ==
    IF NotProduct(p) THEN acc
    ELSE LET amt == calculate_product_demand(patients, p, buffer_pct)
         IN  [total |-> amt,
              by_product |-> DictSet(acc.by_product, p.name,
                                     Get(acc.by_product, p.name, 0) + amt)]

LoopBody_name_overwritten(acc, patients, p, buffer_pct) ==
    IF NotProduct(p) THEN acc
    ELSE LET amt == calculate_product_demand(patients, p, buffer_pct)
         IN  [total |-> acc.total + amt,
              by_product |-> DictSet(acc.by_product, p.name, amt)]

\* a None entry kept as a key of the breakdown, with no amount
LoopBody_none_as_key(acc, patients, p, buffer_pct) ==
    IF NotProduct(p)
    THEN [total |-> acc.total,
          by_product |-> DictSet(acc.by_product, <<"N","o","n","e">>, 0)]
    ELSE LET amt == calculate_product_demand(patients, p, buffer_pct)
         IN  [total |-> acc.total + amt,
              by_product |-> DictSet(acc.by_product, p.name,
                                     Get(acc.by_product, p.name, 0) + amt)]

LoopBody(acc, patients, p, buffer_pct) ==
    IF NotProduct(p) THEN acc
    ELSE LET amt == calculate_product_demand(patients, p, buffer_pct)
         IN  [total |-> acc.total + amt,
              by_product |-> DictSet(acc.by_product, p.name,
                                     Get(acc.by_product, p.name, 0) + amt)]

RECURSIVE GroupLoop(_, _, _, _)
GroupLoop(acc, patients, products, buffer_pct) ==
    IF products = <<>> THEN acc
    ELSE GroupLoop(LoopBody(acc, patients, Head(products), buffer_pct),
                   patients, Tail(products), buffer_pct)

\* the loop left at the first None entry instead of continuing
RECURSIVE GroupLoop_break(_, _, _, _)
GroupLoop_break(acc, patients, products, buffer_pct) ==
    IF products = <<>> \/ NotProduct(Head(products)) THEN acc
    ELSE GroupLoop_break(LoopBody(acc, patients, Head(products), buffer_pct),
                         patients, Tail(products), buffer_pct)

calculate_group_demand_break(p) ==
    GroupLoop_break([total |-> 0, by_product |-> EmptyDict],
                    p.patients, p.products, p.buffer_pct)

\* returns [total, by_product]
calculate_group_demand(p) ==
    GroupLoop([total |-> 0, by_product |-> EmptyDict],
              p.patients, p.products, p.buffer_pct)

----------------------------------------------------------------------------
(* clinical_demand_app.py: product_inputs and group_inputs *)

\* what the widgets of one product slot hold
Slot(name, product_amount, admin_points, days) ==
    [name |-> name, product_amount |-> product_amount,
     admin_points |-> admin_points, days |-> days]

\* a slot without a name handed on as a product with the empty name
product_inputs_unnamed(slot) ==
    ProductParams(slot.name, slot.product_amount, slot.admin_points, slot.days)

\* lines 66-86: `if not product_name: return None`
product_inputs(slot) ==
    IF slot.name = <<>> THEN NoneProduct
    ELSE ProductParams(slot.name, slot.product_amount, slot.admin_points, slot.days)

\* lines 88-107: one product_inputs per slot
group_inputs(patients, sl, buffer_pct) ==
    DosingParams(patients, [i \in DOMAIN sl |-> product_inputs(sl[i])], buffer_pct)

----------------------------------------------------------------------------
(* Inputs of the calculator *)

\* ProductParams takes any str as a name, the empty one too
CalcNames == {<<>>, <<"p","1">>, <<"p","2">>}
AmountValues == {0, 3}
PointsValues == {1, 2}
DaysValues == {5}
BufferValues == {0, 10, 50}

ProductInputs ==
    {ProductParams(n, a, ap, d) :
        n \in CalcNames, a \in AmountValues, ap \in PointsValues, d \in DaysValues}

SeqsUpTo(S, n) == UNION {[1..k -> S] : k \in 0..n}

DosingInputs ==
    {DosingParams(pt, ps, b) :
        pt \in 0..MaxPatients,
        ps \in SeqsUpTo(ProductInputs \cup {NoneProduct}, MaxProducts),
        b \in BufferValues}

\* the slots of a group of the page: one slot at least, a name typed or not
SlotInputs ==
    {Slot(n, a, ap, d) :
        n \in CalcNames, a \in AmountValues, ap \in {1}, d \in DaysValues}

SlotLists == SeqsUpTo(SlotInputs, MaxProducts) \ {<<>>}

----------------------------------------------------------------------------
(* The calculator called on a group built by hand, as tests/test_demand.py *)
(* builds it (slots is empty), or on a group built by group_inputs from   *)
(* the slots of the page                                                   *)

InitCalc ==
    /\ pc = "ready"
    /\ \/ /\ slots = <<>>
          /\ params \in DosingInputs
       \/ /\ slots \in SlotLists
          /\ \E pt \in 1..MaxPatients, b \in BufferValues :
                params = group_inputs(pt, slots, b)
    /\ product = NoneProduct
    /\ amount = 0
    /\ group_total = 0
    /\ group_by_product = EmptyDict
    /\ all_groups = <<>>
    /\ product_totals = EmptyDict
    /\ expanded_rows = <<>>
    /\ sanitized_map = EmptyDict
    /\ NoSlugCall
    /\ NoSession

CallProductDemand ==
    /\ pc = "ready"
    /\ \E i \in DOMAIN params.products :
          /\ ~NotProduct(params.products[i])
          /\ product' = params.products[i]
          /\ amount' = calculate_product_demand(params.patients, params.products[i],
                                                params.buffer_pct)
    /\ pc' = "product_returned"
    /\ UNCHANGED <<params, group_total, group_by_product, all_groups,
                   product_totals, expanded_rows, sanitized_map,
                   slots, slugVars, uiVars>>

CallGroupDemand ==
    /\ pc = "ready"
    /\ LET res == calculate_group_demand(params)
       IN  /\ group_total' = res.total
           /\ group_by_product' = res.by_product
    /\ pc' = "group_returned"
    /\ UNCHANGED <<params, product, amount, all_groups,
                   product_totals, expanded_rows, sanitized_map,
                   slots, slugVars, uiVars>>

\* the caller goes on to its next call with the same group
NewCall ==
    /\ pc \in {"product_returned", "group_returned"}
    /\ pc' = "ready"
    /\ product' = NoneProduct
    /\ amount' = 0
    /\ group_total' = 0
    /\ group_by_product' = EmptyDict
    /\ UNCHANGED <<params, all_groups, product_totals, expanded_rows, sanitized_map,
                   slots, slugVars, uiVars>>

NextCalc == CallProductDemand \/ CallGroupDemand \/ NewCall

SpecCalc == InitCalc /\ [][NextCalc]_vars

----------------------------------------------------------------------------
(* Python str operations used by clinical_demand_app.py *)

LowerLetters == {"a","b","c","d","e","f","g","h","i","j","k","l","m",
                 "n","o","p","q","r","s","t","u","v","w","x","y","z"}
UpperLetters == <<"A","B","C","D","E","F","G","H","I","J","K","L","M",
                  "N","O","P","Q","R","S","T","U","V","W","X","Y","Z">>
LowerOfUpper == <<"a","b","c","d","e","f","g","h","i","j","k","l","m",
                  "n","o","p","q","r","s","t","u","v","w","x","y","z">>
DigitChars == <<"0","1","2","3","4","5","6","7","8","9">>
Digits == {DigitChars[i] : i \in DOMAIN DigitChars}

\* the characters matched by \s and removed by str.strip() that the model has
Whitespace == {" ", "\t"}

\* the characters of the model in the order of their code points, which is
\* the order sorted() compares strings by
CodePointOrder ==
    <<"\t", " ", "!", "-">> \o DigitChars \o <<"?">> \o UpperLetters \o <<"_">>
    \o LowerOfUpper

Ord(c) == CHOOSE i \in DOMAIN CodePointOrder : CodePointOrder[i] = c

\* a < b for two str
RECURSIVE StrLess(_, _)
StrLess(a, b) ==
    IF b = <<>> THEN FALSE
    ELSE IF a = <<>> THEN TRUE
    ELSE IF Head(a) = Head(b) THEN StrLess(Tail(a), Tail(b))
    ELSE Ord(Head(a)) < Ord(Head(b))

\* the names taken in descending order
RECURSIVE Sorted_descending(_)
Sorted_descending(S) ==
    IF S = {} THEN <<>>
    ELSE LET m == CHOOSE x \in S : \A y \in S \ {x} : StrLess(y, x)
         IN  <<m>> \o Sorted_descending(S \ {m})

\* sorted(S) for a set of str
RECURSIVE Sorted(_)
Sorted(S) ==
    IF S = {} THEN <<>>
    ELSE LET m == CHOOSE x \in S : \A y \in S \ {x} : StrLess(x, y)
         IN  <<m>> \o Sorted(S \ {m})

\* c.lower()
Lower(c) ==
    IF \E i \in DOMAIN UpperLetters : UpperLetters[i] = c
    THEN LowerOfUpper[CHOOSE i \in DOMAIN UpperLetters : UpperLetters[i] = c]
    ELSE c

LowerStr(s) == [i \in 1..Len(s) |-> Lower(s[i])]

RECURSIVE LStrip(_)
LStrip(s) ==
    IF s # <<>> /\ Head(s) \in Whitespace THEN LStrip(Tail(s)) ELSE s

RECURSIVE RStrip(_)
RStrip(s) ==
    IF s # <<>> /\ s[Len(s)] \in Whitespace
    THEN RStrip(SubSeq(s, 1, Len(s) - 1)) ELSE s

\* value.strip()
Strip(s) == RStrip(LStrip(s))

\* re.sub(r"[^a-z0-9 _-]", "", value)
KeptChars == LowerLetters \cup Digits \cup {" ", "_", "-"}
KeepChar(c) == c \in KeptChars
RemoveUnsafe(s) == SelectSeq(s, KeepChar)

\* re.sub(r"[\s-]+", "_", value): every maximal run becomes one underscore
RunChars == Whitespace \cup {"-"}

RECURSIVE DropRun(_)
DropRun(s) ==
    IF s # <<>> /\ Head(s) \in RunChars THEN DropRun(Tail(s)) ELSE s

\* the run replaced by a space instead of an underscore
RECURSIVE CollapseRuns_to_space(_)
CollapseRuns_to_space(s) ==
    IF s = <<>> THEN <<>>
    ELSE IF Head(s) \in RunChars
         THEN <<" ">> \o CollapseRuns_to_space(DropRun(s))
    ELSE <<Head(s)>> \o CollapseRuns_to_space(Tail(s))

RECURSIVE CollapseRuns(_)
CollapseRuns(s) ==
    IF s = <<>> THEN <<>>
    ELSE IF Head(s) \in RunChars THEN <<"_">> \o CollapseRuns(DropRun(s))
    ELSE <<Head(s)>> \o CollapseRuns(Tail(s))

\* value.strip() left out
slugify_unstripped(value) == CollapseRuns(RemoveUnsafe(LowerStr(value)))

slugify(value) == CollapseRuns(RemoveUnsafe(LowerStr(Strip(value))))

\* str(i) for i >= 0
RECURSIVE IntToStr(_)
IntToStr(i) ==
    IF i < 10 THEN <<DigitChars[i + 1]>>
    ELSE IntToStr(i \div 10) \o <<DigitChars[(i % 10) + 1]>>

----------------------------------------------------------------------------
(* Keys of the group records and of the rows *)

key_patients == <<"p","a","t","i","e","n","t","s">>
key_products == <<"p","r","o","d","u","c","t","s">>
key_buffer_pct == <<"b","u","f","f","e","r","_","p","c","t">>
key_demand_mg == <<"d","e","m","a","n","d","_","m","g">>
key_demand == <<"d","e","m","a","n","d">>
key_trial == <<"t","r","i","a","l">>
key_trial_name == <<"t","r","i","a","l","_","n","a","m","e">>
key_group == <<"g","r","o","u","p">>
key_group_name == <<"g","r","o","u","p","_","n","a","m","e">>
key_product_breakdown ==
    <<"p","r","o","d","u","c","t","_","b","r","e","a","k","d","o","w","n">>

\* f"{san}_mg"
MgColumn(san) == san \o <<"_","m","g">>

\* `x or {}` for a breakdown
OrEmptyDict(pb) == IF pb = NoneDict \/ pb = EmptyDict THEN EmptyDict ELSE pb

----------------------------------------------------------------------------
(* clinical_demand_app.py: expand_product_rows *)

\* the names of the first row alone
ProductNamesOf_first_row(rows) ==
    IF Get(rows[1], key_product_breakdown, NoneDict) = NoneDict THEN {}
    ELSE DOMAIN rows[1][key_product_breakdown]

\* lines 176-181: the product names of all rows whose breakdown is a dict
ProductNamesOf(rows) ==
    UNION {DOMAIN rows[i][key_product_breakdown] :
              i \in {j \in DOMAIN rows :
                        Get(rows[j], key_product_breakdown, NoneDict) # NoneDict}}

\* lines 188-192: the first of san, base_1, base_2, ... that is not in used
RECURSIVE WhileUsed(_, _, _, _)
WhileUsed(san, base, i, used) ==
    IF san \in used
    THEN WhileUsed(base \o <<"_">> \o IntToStr(i), base, i + 1, used)
    ELSE san

\* the collision loop left out
FreshToken_unchecked(name, used) == slugify(name)

FreshToken(name, used) == WhileUsed(slugify(name), slugify(name), 1, used)

\* lines 184-194: the loop over sorted(product_names)
RECURSIVE SanitizeLoop(_, _, _)
SanitizeLoop(names, used, map) ==
    IF names = <<>> THEN map
    ELSE LET san == FreshToken(Head(names), used)
         IN  SanitizeLoop(Tail(names), used \cup {san},
                          DictSet(map, Head(names), san))

BuildSanitizedMap(product_names) == SanitizeLoop(Sorted(product_names), {}, EmptyDict)

\* the nested breakdown and the raw list alone excluded
ExcludedKeys_nested_only == {key_product_breakdown, key_products}

\* line 201: the keys that are not copied into the row
ExcludedKeys == {key_product_breakdown, key_demand_mg, key_demand, key_products}

\* lines 201-205: the row without the excluded keys; every value left is a
\* scalar (the list and the dict of a record are excluded), so no value is
\* replaced by its str()
FlatFields(r) == [k \in DOMAIN r \ ExcludedKeys |-> r[k]]

\* sorted(sanitized_map.items(), key=lambda kv: kv[1]): the names in the
\* order of their tokens; the stable sort leaves equal tokens in the order
\* of insertion, which is the order of the names
RECURSIVE NamesByToken(_, _)
NamesByToken(S, map) ==
    IF S = {} THEN <<>>
    ELSE LET m == CHOOSE x \in S : \A y \in S \ {x} :
                      \/ StrLess(map[x], map[y])
                      \/ (map[x] = map[y] /\ StrLess(x, y))
         IN  <<m>> \o NamesByToken(S \ {m}, map)

\* line 211: int(round(amt)), no amt of a breakdown being None
\* a tie rounded up instead of to the even integer
ColumnValue_half_up(amt) == (amt + Scale \div 2) \div Scale

ColumnValue(amt) == IntRound(amt)

\* lines 208-211: one column per name
RECURSIVE ColumnLoop(_, _, _, _)
ColumnLoop(newr, names, map, pb) ==
    IF names = <<>> THEN newr
    ELSE ColumnLoop(DictSet(newr, MgColumn(map[Head(names)]),
                            ColumnValue(Get(pb, Head(names), 0))),
                    Tail(names), map, pb)

\* lines 197-213: the row of one record
ExpandRow(r, map) ==
    ColumnLoop(FlatFields(r), NamesByToken(DOMAIN map, map), map,
               OrEmptyDict(Get(r, key_product_breakdown, NoneDict)))

\* returns [expanded, sanitized_map]
expand_product_rows(rows) ==
    IF rows = <<>> THEN [expanded |-> <<>>, sanitized_map |-> EmptyDict]
    ELSE LET map == BuildSanitizedMap(ProductNamesOf(rows))
         IN  [expanded |-> [i \in DOMAIN rows |-> ExpandRow(rows[i], map)],
              sanitized_map |-> map]

----------------------------------------------------------------------------
(* clinical_demand_app.py: main, lines 419-424 *)

\* the running total assigned instead of added to
AddBreakdown_overwrite(totals, pb) ==
    [n \in DOMAIN totals \cup DOMAIN pb |->
        IF n \in DOMAIN pb THEN pb[n] ELSE totals[n]]

\* lines 423-424: the inner loop over pb.items()
AddBreakdown(totals, pb) ==
    [n \in DOMAIN totals \cup DOMAIN pb |-> Get(totals, n, 0) + Get(pb, n, 0)]

\* lines 420-424
RECURSIVE AggregateLoop(_, _)
AggregateLoop(totals, groups) ==
    IF groups = <<>> THEN totals
    ELSE AggregateLoop(
             AddBreakdown(totals,
                 OrEmptyDict(Get(Head(groups), key_product_breakdown, NoneDict))),
             Tail(groups))

\* the loop left after the first record
AggregateProductTotals_first_record(groups) ==
    AggregateLoop(EmptyDict, SubSeq(groups, 1, 1))

AggregateProductTotals(groups) == AggregateLoop(EmptyDict, groups)

----------------------------------------------------------------------------
(* clinical_demand_app.py: main, lines 439-471, the TOTAL row *)

\* lines 443-451: the first of the label columns that the row has, else
\* keys[0]; a record of the page begins with the fields of asdict(params),
\* the first of which is patients
LabelKey(row) ==
    IF key_group_name \in DOMAIN row THEN key_group_name
    ELSE IF key_trial_name \in DOMAIN row THEN key_trial_name
    ELSE IF key_group \in DOMAIN row THEN key_group
    ELSE IF key_trial \in DOMAIN row THEN key_trial
    ELSE IF key_patients \in DOMAIN row THEN key_patients
    ELSE CHOOSE k \in DOMAIN row : TRUE

\* the total looked up under the token instead of the name
TotalValue_by_token(totals, orig_name, san) == IntRound(Get(totals, san, 0))

\* lines 456-458: int(round(product_totals.get(orig_name, 0.0)))
TotalValue(totals, orig_name, san) == IntRound(Get(totals, orig_name, 0))

\* lines 454-458: the loop over sanitized_map.items()
RECURSIVE TotalColumns(_, _, _, _)
TotalColumns(summary_row, names, map, totals) ==
    IF names = {} THEN summary_row
    ELSE LET n == CHOOSE x \in names : TRUE
         IN  TotalColumns(DictSet(summary_row, MgColumn(map[n]),
                                  TotalValue(totals, n, map[n])),
                          names \ {n}, map, totals)

\* lines 464-467: sum(int(g.get("patients", 0)) for g in all_groups)
RECURSIVE TotalPatients(_)
TotalPatients(groups) ==
    IF groups = <<>> THEN 0
    ELSE Get(Head(groups), key_patients, 0) + TotalPatients(Tail(groups))

Total == <<"T","O","T","A","L">>

\* lines 441-469: the summary row for the first expanded row
SummaryRow(first_row, map, totals, groups) ==
    LET blank == [k \in DOMAIN first_row |-> <<>>]
        labelled == DictSet(blank, LabelKey(blank), Total)
        filled == TotalColumns(labelled, DOMAIN map, map, totals)
    IN  IF key_patients \in DOMAIN filled
        THEN DictSet(filled, key_patients, TotalPatients(groups))
        ELSE filled

----------------------------------------------------------------------------
(* clinical_demand_app.py: one run of main.  Lines 419-471 run once per    *)
(* trial, on the groups gathered so far: a pass from "inputs" to           *)
(* "totalled" is one run of these lines on a list of groups.               *)

\* line 129: the group record, asdict(params) and the keys added to it
GroupRecord(p, total, by_product, trial, trial_name, group, group_name) ==
    (key_patients :> p.patients) @@ (key_products :> p.products)
    @@ (key_buffer_pct :> p.buffer_pct) @@ (key_demand_mg :> IntRound(total))
    @@ (key_trial :> trial) @@ (key_trial_name :> trial_name)
    @@ (key_group :> group) @@ (key_group_name :> group_name)
    @@ (key_product_breakdown :> by_product)

\* the default texts of the name inputs, lines 112 and 122
DefaultTrialName(t) == <<"T","r","i","a","l"," ">> \o IntToStr(t)
DefaultGroupName(g) == <<"G","r","o","u","p"," ">> \o IntToStr(g)

\* what the widgets of one group can hold (patients >= 1, at least one
\* product slot, a slot without a name being None)
AppNames == {<<"A">>, <<"a">>, <<"a","_","1">>}
AppSlots == {Slot(n, 1, 1, 1) : n \in AppNames \cup {<<>>}}
AppSlotLists ==
    {<<x>> : x \in AppSlots}
    \cup {xy \in AppSlots \X AppSlots :
             xy[1].name = <<"A">> /\ xy[2].name \notin {<<"A">>, <<>>}}
AppSettings == {<<1, 0>>, <<1, 25>>, <<2, 25>>}

Init ==
    /\ pc = "inputs"
    /\ params = DosingParams(0, <<>>, 0)
    /\ product = NoneProduct
    /\ amount = 0
    /\ group_total = 0
    /\ group_by_product = EmptyDict
    /\ all_groups = <<>>
    /\ product_totals = EmptyDict
    /\ expanded_rows = <<>>
    /\ sanitized_map = EmptyDict
    /\ slots = <<>>
    /\ NoSlugCall
    /\ NoSession

\* trial_section, lines 119-130: one more group, of the trial of the last
\* group or of the next trial
GroupInputs ==
    /\ pc = "inputs"
    /\ Len(all_groups) < MaxGroups
    /\ \E st \in AppSettings, sl \in AppSlotLists, new_trial \in BOOLEAN :
          LET p == group_inputs(st[1], sl, st[2])
              first == all_groups = <<>>
              last == all_groups[Len(all_groups)]
              trial == IF first THEN 1
                       ELSE IF new_trial THEN last[key_trial] + 1
                       ELSE last[key_trial]
              group == IF first \/ new_trial THEN 1 ELSE last[key_group] + 1
              res == calculate_group_demand(p)
          IN  /\ first => new_trial
              /\ slots' = sl
              /\ params' = p
              /\ group_total' = res.total
              /\ group_by_product' = res.by_product
              /\ all_groups' = Append(all_groups,
                     GroupRecord(p, res.total, res.by_product,
                                 trial, DefaultTrialName(trial),
                                 group, DefaultGroupName(group)))
    /\ UNCHANGED <<pc, product, amount, product_totals, expanded_rows, sanitized_map,
                   slugVars, uiVars>>

\* main, lines 419-424
AggregateTotals ==
    /\ pc = "inputs"
    /\ all_groups # <<>>
    /\ product_totals' = AggregateProductTotals(all_groups)
    /\ pc' = "aggregated"
    /\ UNCHANGED <<params, product, amount, group_total, group_by_product,
                   all_groups, expanded_rows, sanitized_map,
                   slots, slugVars, uiVars>>

\* main, line 437
ExpandRows ==
    /\ pc = "aggregated"
    /\ LET res == expand_product_rows(all_groups)
       IN  /\ expanded_rows' = res.expanded
           /\ sanitized_map' = res.sanitized_map
    /\ pc' = "expanded"
    /\ UNCHANGED <<params, product, amount, group_total, group_by_product,
                   all_groups, product_totals,
                   slots, slugVars, uiVars>>

\* main, lines 439-471
AppendTotalRow ==
    /\ pc = "expanded"
    /\ expanded_rows' =
          IF expanded_rows # <<>>
          THEN Append(expanded_rows,
                      SummaryRow(expanded_rows[1], sanitized_map,
                                 product_totals, all_groups))
          ELSE expanded_rows
    /\ pc' = "totalled"
    /\ UNCHANGED <<params, product, amount, group_total, group_by_product,
                   all_groups, product_totals, sanitized_map,
                   slots, slugVars, uiVars>>

\* the next interaction runs the script again from its first line
Rerun ==
    /\ pc = "totalled"
    /\ pc' = "inputs"
    /\ params' = DosingParams(0, <<>>, 0)
    /\ group_total' = 0
    /\ group_by_product' = EmptyDict
    /\ all_groups' = <<>>
    /\ product_totals' = EmptyDict
    /\ expanded_rows' = <<>>
    /\ sanitized_map' = EmptyDict
    /\ slots' = <<>>
    /\ UNCHANGED <<product, amount, slugVars, uiVars>>

Next == GroupInputs \/ AggregateTotals \/ ExpandRows \/ AppendTotalRow \/ Rerun

Spec == Init /\ [][Next]_vars

----------------------------------------------------------------------------
(* The aggregation and expand_product_rows on records built by hand, as   *)
(* tools/generate_sample.py builds them                                    *)

MaxRows == 3          \* most records of a hand-built list
MaxNames == 3         \* most product names of a hand-built breakdown

\* product names over a small alphabet, and the names of the examples
NameChars == {"!", "_", "A", "a"}
NameUniverse ==
    UNION {[1..k -> NameChars] : k \in 1..2}
    \cup {<<"a","_","1">>, <<"_","1">>, <<" ","a">>,
          <<"D","r","u","g"," ","A">>, <<"D","r","u","g","-","A">>}

\* a record without the key product_breakdown
Absent == [k \in {<<"absent">>} |-> -1]

\* breakdowns of two products: none, None, empty, and amounts of 100.0,
\* 50.5 and 100.0 mg
SampleBreakdowns ==
    {Absent, NoneDict, EmptyDict,
     (<<"X">> :> 10000),
     (<<"X">> :> 5050) @@ (<<"Y">> :> 10000),
     (<<"Y">> :> 5050)}

SampleRecord(i, pb) ==
    IF pb = Absent THEN (key_group :> i)
    ELSE (key_group :> i) @@ (key_product_breakdown :> pb)

\* the subsets of S of at most k elements
RECURSIVE SubsetsUpTo(_, _)
SubsetsUpTo(S, k) ==
    IF k = 0 THEN {{}}
    ELSE LET prev == SubsetsUpTo(S, k - 1)
         IN  prev \cup {T \cup {x} : T \in prev, x \in S}

RowInputs ==
    {<<SampleRecord(1, [n \in S |-> 250])>> :
        S \in SubsetsUpTo(NameUniverse, MaxNames) \ {{}}}
    \cup {[i \in DOMAIN pbs |-> SampleRecord(i, pbs[i])] :
            pbs \in SeqsUpTo(SampleBreakdowns, MaxRows) \ {<<>>}}

InitRows ==
    /\ pc = "inputs"
    /\ params = DosingParams(0, <<>>, 0)
    /\ product = NoneProduct
    /\ amount = 0
    /\ group_total = 0
    /\ group_by_product = EmptyDict
    /\ all_groups \in RowInputs
    /\ product_totals = EmptyDict
    /\ expanded_rows = <<>>
    /\ sanitized_map = EmptyDict
    /\ slots = <<>>
    /\ NoSlugCall
    /\ NoSession

NextRows == AggregateTotals \/ ExpandRows \/ AppendTotalRow

SpecRows == InitRows /\ [][NextRows]_vars

----------------------------------------------------------------------------
(* slugify called on a text, and on the file name it returned in the run  *)
(* before (main, lines 497-513: the sanitized download name is kept in    *)
(* the session and sanitized again in the next run)                       *)

MaxLen == 4           \* longest text drawn from SlugChars

SlugChars == {" ", "\t", "-", "_", "!", "1", "A", "a"}

\* every short text, and a long one with every kind of character
TextInputs ==
    SeqsUpTo(SlugChars, MaxLen)
    \cup {<<" ","A","!"," ","-","\t","-","b","_","2"," ">>}

InitSlug ==
    /\ pc = "ready"
    /\ text \in TextInputs
    /\ token = <<>>
    /\ params = DosingParams(0, <<>>, 0)
    /\ product = NoneProduct
    /\ amount = 0
    /\ group_total = 0
    /\ group_by_product = EmptyDict
    /\ all_groups = <<>>
    /\ product_totals = EmptyDict
    /\ expanded_rows = <<>>
    /\ sanitized_map = EmptyDict
    /\ slots = <<>>
    /\ NoSession

CallSlugify ==
    /\ pc = "ready"
    /\ token' = slugify(text)
    /\ pc' = "slug_returned"
    /\ UNCHANGED <<text, params, product, amount, group_total, group_by_product,
                   all_groups, product_totals, expanded_rows, sanitized_map,
                   slots, uiVars>>

\* the token handed to slugify in its turn
CallSlugifyAgain ==
    /\ pc = "slug_returned"
    /\ text' = token
    /\ token' = slugify(token)
    /\ pc' = "slug_returned_again"
    /\ UNCHANGED <<params, product, amount, group_total, group_by_product,
                   all_groups, product_totals, expanded_rows, sanitized_map,
                   slots, uiVars>>

NextSlug == CallSlugify \/ CallSlugifyAgain

SpecSlug == InitSlug /\ [][NextSlug]_vars

----------------------------------------------------------------------------
(* clinical_demand_app.py: the session.  Every interaction of the user     *)
(* with the page runs main from its first line; st.session_state lives     *)
(* from one run to the next.                                               *)

MaxTrials == 2        \* largest number of trials chosen on the page

\* the values the widgets of a group are first served with
DefaultGroups == 2
DefaultPatients == 50
DefaultAmount == 50
DefaultPoints == 1
DefaultDays == 28
DefaultBuffer == 0

\* the product name the user can type, into the first slot of the first
\* group of the first trial; every other widget of a group keeps its default
TypedNames == {<<"A">>}

\* lines 379-388: the number of trials of the run before is remembered, a
\* change of it sets the flag, and the flag is made to exist
TrackNumTrials(ss, num_trials) ==
    LET s1 == IF "_prev_num_trials" \in DOMAIN ss THEN ss
              ELSE DictSet(ss, "_prev_num_trials", num_trials)
        s2 == IF num_trials # s1["_prev_num_trials"]
              THEN DictSet(DictSet(s1, "_prev_num_trials", num_trials),
                           "_show_totals", TRUE)
              ELSE s1
    IN  IF "_show_totals" \in DOMAIN s2 THEN s2
        ELSE DictSet(s2, "_show_totals", FALSE)

\* lines 545-549: st.button is True in the run that its press triggered
ButtonHandlers(ss, ev) ==
    IF ev = "calculate_totals_btn" THEN DictSet(ss, "_show_totals", TRUE)
    ELSE IF ev = "hide_totals_btn" THEN DictSet(ss, "_show_totals", FALSE)
    ELSE ss

\* group_inputs of group g of trial t
PageSlots(t, g, w) ==
    <<Slot(IF t = 1 /\ g = 1 THEN w.product_name ELSE <<>>,
           DefaultAmount, DefaultPoints, DefaultDays)>>

PageParams(t, g, w) == group_inputs(DefaultPatients, PageSlots(t, g, w), DefaultBuffer)

\* trial_section, lines 119-130: the record of group g of trial t
PageGroup(t, g, w) ==
    LET p == PageParams(t, g, w)
        res == calculate_group_demand(p)
    IN  GroupRecord(p, res.total, res.by_product,
                    t, DefaultTrialName(t), g, DefaultGroupName(g))

\* lines 412-415: all_groups after the trials 1..t
RECURSIVE GroupsUpTo(_, _)
GroupsUpTo(t, w) ==
    IF t = 0 THEN <<>>
    ELSE GroupsUpTo(t - 1, w) \o [g \in 1..DefaultGroups |-> PageGroup(t, g, w)]

\* lines 486-490, once per trial: the summary is drawn when the totals of
\* the groups gathered so far are not empty and the flag is set
SummaryDrawn(ss, w) ==
    \E t \in 1..w.num_trials :
        /\ AggregateProductTotals(GroupsUpTo(t, w)) # EmptyDict
        /\ Get(ss, "_show_totals", FALSE)

\* the two buttons are drawn under the breakdown, lines 499 and 543-549
ButtonsDrawn == widgets.show_breakdown /\ expanded_rows # <<>>

InitUI ==
    /\ pc = "run_pending"
    /\ session_state = EmptyDict
    /\ widgets = DefaultWidgets
    /\ event = "load"
    /\ totals_rendered = FALSE
    /\ last_action = "none"
    /\ params = DosingParams(0, <<>>, 0)
    /\ product = NoneProduct
    /\ amount = 0
    /\ group_total = 0
    /\ group_by_product = EmptyDict
    /\ all_groups = <<>>
    /\ product_totals = EmptyDict
    /\ expanded_rows = <<>>
    /\ sanitized_map = EmptyDict
    /\ slots = <<>>
    /\ NoSlugCall

\* main, run to its last line
RunMain ==
    /\ pc = "run_pending"
    /\ widgets.action # "Reset to defaults"
    /\ LET n == widgets.num_trials
           ss == TrackNumTrials(session_state, n)
           groups == GroupsUpTo(n, widgets)
           totals == AggregateProductTotals(groups)
           res == expand_product_rows(groups)
           rows == IF res.expanded # <<>>
                   THEN Append(res.expanded,
                               SummaryRow(res.expanded[1], res.sanitized_map,
                                          totals, groups))
                   ELSE res.expanded
           last == PageParams(n, DefaultGroups, widgets)
       IN  /\ slots' = PageSlots(n, DefaultGroups, widgets)
           /\ params' = last
           /\ group_total' = calculate_group_demand(last).total
           /\ group_by_product' = calculate_group_demand(last).by_product
           /\ all_groups' = groups
           /\ product_totals' = totals
           /\ expanded_rows' = rows
           /\ sanitized_map' = res.sanitized_map
           /\ totals_rendered' = SummaryDrawn(ss, widgets)
           /\ session_state' =
                 IF widgets.show_breakdown /\ rows # <<>>
                 THEN ButtonHandlers(ss, event) ELSE ss
    /\ pc' = "idle"
    /\ UNCHANGED <<product, amount, slugVars, widgets, event, last_action>>

\* main, lines 391-399: with Actions on "Reset to defaults" every key of
\* the session is deleted, the widgets that have a key go back to their
\* defaults, and st.rerun() starts the script again before anything below
\* is drawn; Actions and the number of trials have no key and keep their
\* values
RunReset ==
    /\ pc = "run_pending"
    /\ widgets.action = "Reset to defaults"
    /\ session_state' = EmptyDict
    /\ widgets' = [widgets EXCEPT !.show_breakdown = TRUE, !.product_name = <<>>]
    /\ event' = "rerun"
    /\ totals_rendered' = FALSE
    /\ pc' = "run_pending"
    /\ UNCHANGED <<params, product, amount, group_total, group_by_product,
                   all_groups, product_totals, expanded_rows, sanitized_map,
                   slots, slugVars, last_action>>

\* what the user leaves untouched by an interaction
Untouched ==
    UNCHANGED <<params, product, amount, group_total, group_by_product,
                all_groups, product_totals, expanded_rows, sanitized_map,
                slots, slugVars, session_state, totals_rendered>>

PressCalculateTotals ==
    /\ pc = "idle"
    /\ ButtonsDrawn
    /\ event' = "calculate_totals_btn"
    /\ last_action' = "show"
    /\ pc' = "run_pending"
    /\ UNCHANGED widgets
    /\ Untouched

PressHideTotals ==
    /\ pc = "idle"
    /\ ButtonsDrawn
    /\ event' = "hide_totals_btn"
    /\ last_action' = "hide"
    /\ pc' = "run_pending"
    /\ UNCHANGED widgets
    /\ Untouched

ChangeNumTrials ==
    /\ pc = "idle"
    /\ \E n \in (1..MaxTrials) \ {widgets.num_trials} :
          widgets' = [widgets EXCEPT !.num_trials = n]
    /\ event' = "num_trials"
    /\ last_action' = "show"
    /\ pc' = "run_pending"
    /\ Untouched

TypeProductName ==
    /\ pc = "idle"
    /\ \E name \in (TypedNames \cup {<<>>}) \ {widgets.product_name} :
          widgets' = [widgets EXCEPT !.product_name = name]
    /\ event' = "product_name"
    /\ pc' = "run_pending"
    /\ UNCHANGED last_action
    /\ Untouched

ToggleBreakdown ==
    /\ pc = "idle"
    /\ widgets' = [widgets EXCEPT !.show_breakdown = ~widgets.show_breakdown]
    /\ event' = "show_breakdown"
    /\ pc' = "run_pending"
    /\ UNCHANGED last_action
    /\ Untouched

\* Actions set to "Reset to defaults", or back to "None", which alone ends
\* the reruns of a reset
SelectAction ==
    /\ pc = "idle" \/ (pc = "run_pending" /\ event = "rerun")
    /\ \E a \in {"None", "Reset to defaults"} \ {widgets.action} :
          /\ widgets' = [widgets EXCEPT !.action = a]
          /\ last_action' = IF a = "Reset to defaults" THEN "none" ELSE last_action
    /\ event' = "action"
    /\ pc' = "run_pending"
    /\ Untouched

NextUI ==
    \/ RunMain \/ RunReset
    \/ PressCalculateTotals \/ PressHideTotals \/ ChangeNumTrials
    \/ TypeProductName \/ ToggleBreakdown \/ SelectAction

SpecUI == InitUI /\ [][NextUI]_vars

----------------------------------------------------------------------------
(* Claims about the calculator, checked under SpecCalc *)

\* patients * product_amount * admin_points * days * (1 + buffer_pct/100),
\* in hundredths of a milligram
ExpectedDemand(patients, p, buffer_pct) ==
    LET base == patients * p.product_amount * p.admin_points * p.days
    IN  100 * base + base * buffer_pct

\* the indices of the entries of a product list that are products
ValidEntries(products) == {i \in DOMAIN products : products[i] # NoneProduct}

RECURSIVE SumOver(_, _, _, _)
\* the sum of ExpectedDemand over the entries I of a product list
SumOver(I, patients, products, buffer_pct) ==
    IF I = {} THEN 0
    ELSE LET i == CHOOSE j \in I : TRUE
         IN  ExpectedDemand(patients, products[i], buffer_pct)
             + SumOver(I \ {i}, patients, products, buffer_pct)

\* C1: the value calculate_product_demand returns for (patients, product,
\* buffer_pct) is patients * product_amount * admin_points * days *
\* (1 + buffer_pct/100), not rounded to a whole milligram.
C1_ProductDemandFormula ==
    pc = "product_returned" =>
        amount = ExpectedDemand(params.patients, product, params.buffer_pct)

\* 1 patient * 3 mg * 1 point * 5 days * 1.10 = 16.5 mg is returned
\* unrounded
C1_Witness ==
    /\ pc = "product_returned"
    /\ params.patients = 1 /\ params.buffer_pct = 10
    /\ product.product_amount = 3 /\ product.admin_points = 1 /\ product.days = 5
    /\ amount = 1650

\* the names of the valid entries of a product list are pairwise distinct
DistinctNames(products) ==
    \A i, j \in ValidEntries(products) :
        products[i].name = products[j].name => i = j

\* C2: for a group whose products have distinct names, by_product has one
\* key per product, mapped to that product's demand under the group's
\* patients and buffer_pct, and total_mg is the sum of those demands.
C2_GroupDemandDistinctNames ==
    (pc = "group_returned" /\ DistinctNames(params.products)) =>
        LET ps == params.products
            V == ValidEntries(ps)
        IN  /\ DOMAIN group_by_product = {ps[i].name : i \in V}
            /\ \A i \in V :
                  group_by_product[ps[i].name] =
                      ExpectedDemand(params.patients, ps[i], params.buffer_pct)
            /\ group_total = SumOver(V, params.patients, ps, params.buffer_pct)

\* two products with different names and different demands, with a buffer
C2_Witness ==
    /\ pc = "group_returned"
    /\ Len(params.products) = 2
    /\ ValidEntries(params.products) = {1, 2}
    /\ params.products[1].name # params.products[2].name
    /\ params.buffer_pct = 10
    /\ group_by_product[params.products[1].name] = 1650
    /\ group_by_product[params.products[2].name] = 3300
    /\ group_total = 4950

\* C3: by_product[name] is the sum of the demands of every entry with that
\* name, and total_mg counts every entry, also when a name repeats.
C3_DuplicateNamesSummed ==
    pc = "group_returned" =>
        LET ps == params.products
            V == ValidEntries(ps)
        IN  /\ DOMAIN group_by_product = {ps[i].name : i \in V}
            /\ \A n \in DOMAIN group_by_product :
                  group_by_product[n] =
                      SumOver({i \in V : ps[i].name = n},
                              params.patients, ps, params.buffer_pct)
            /\ group_total = SumOver(V, params.patients, ps, params.buffer_pct)

\* the same name twice, with different demands: 16.5 mg + 33 mg
C3_Witness ==
    /\ pc = "group_returned"
    /\ Len(params.products) = 2
    /\ ValidEntries(params.products) = {1, 2}
    /\ params.products[1].name = params.products[2].name
    /\ ExpectedDemand(params.patients, params.products[1], params.buffer_pct) = 1650
    /\ ExpectedDemand(params.patients, params.products[2], params.buffer_pct) = 3300
    /\ group_by_product[params.products[1].name] = 4950
    /\ group_total = 4950

\* a product list without its None entries
RECURSIVE WithoutNone(_)
WithoutNone(products) ==
    IF products = <<>> THEN <<>>
    ELSE IF Head(products) = NoneProduct THEN WithoutNone(Tail(products))
    ELSE <<Head(products)>> \o WithoutNone(Tail(products))

\* C4: with None entries at any positions, calculate_group_demand returns
\* what it returns for the list with the None entries removed.
C4_NoneEntriesIgnored ==
    pc = "group_returned" =>
        LET res == calculate_group_demand(
                       DosingParams(params.patients, WithoutNone(params.products),
                                    params.buffer_pct))
        IN  /\ group_total = res.total
            /\ group_by_product = res.by_product

\* a None entry in front of a product with a positive demand
C4_Witness ==
    /\ pc = "group_returned"
    /\ Len(params.products) = 2
    /\ params.products[1] = NoneProduct
    /\ params.products[2] # NoneProduct
    /\ group_total > 0
    /\ DOMAIN group_by_product = {params.products[2].name}

----------------------------------------------------------------------------
(* Claims about the aggregation and the sanitized map, checked under       *)
(* SpecRows                                                                *)

\* the breakdown of a record, empty when the key is absent or holds None
BreakdownOf(r) ==
    IF key_product_breakdown \notin DOMAIN r THEN EmptyDict
    ELSE IF r[key_product_breakdown] = NoneDict THEN EmptyDict
    ELSE r[key_product_breakdown]

\* the sum of the amounts of name n over the records I of a list
RECURSIVE SumOfName(_, _, _)
SumOfName(n, I, groups) ==
    IF I = {} THEN 0
    ELSE LET i == CHOOSE j \in I : TRUE
         IN  BreakdownOf(groups[i])[n] + SumOfName(n, I \ {i}, groups)

Aggregated == pc \in {"aggregated", "expanded", "totalled"}

\* record i holds pb under the key product_breakdown
Holds(i, pb) ==
    /\ i \in DOMAIN all_groups
    /\ key_product_breakdown \in DOMAIN all_groups[i]
    /\ all_groups[i][key_product_breakdown] = pb

\* C5: the per-product totals have one key per product name of any record's
\* breakdown, mapped to the sum of that name's amount over the records that
\* have it; a record without a breakdown, or with None, adds nothing.
C5_TotalsAreSums ==
    Aggregated =>
        /\ DOMAIN product_totals =
              UNION {DOMAIN BreakdownOf(all_groups[i]) : i \in DOMAIN all_groups}
        /\ \A n \in DOMAIN product_totals :
              product_totals[n] =
                  SumOfName(n, {i \in DOMAIN all_groups :
                                   n \in DOMAIN BreakdownOf(all_groups[i])},
                            all_groups)

\* X: 100.0, then a record whose breakdown is None, then X: 50.5 and Y: 100.0
C5_Witness ==
    /\ pc = "aggregated"
    /\ Len(all_groups) = 3
    /\ Holds(1, (<<"X">> :> 10000))
    /\ Holds(2, NoneDict)
    /\ Holds(3, (<<"X">> :> 5050) @@ (<<"Y">> :> 10000))
    /\ product_totals = (<<"X">> :> 15050) @@ (<<"Y">> :> 10000)

\* the permutations of 1..n
OrdersOf(n) ==
    {f \in [1..n -> 1..n] : \A i, j \in 1..n : f[i] = f[j] => i = j}

\* C6: the records aggregated in any other order give the same totals.
C6_OrderIndependent ==
    Aggregated =>
        \A f \in OrdersOf(Len(all_groups)) :
            AggregateProductTotals([i \in DOMAIN all_groups |-> all_groups[f[i]]])
                = product_totals

\* three records that share a name with different amounts
C6_Witness ==
    /\ pc = "aggregated"
    /\ Len(all_groups) = 3
    /\ Holds(1, (<<"X">> :> 10000))
    /\ Holds(2, (<<"X">> :> 5050) @@ (<<"Y">> :> 10000))
    /\ Holds(3, (<<"Y">> :> 5050))
    /\ product_totals = (<<"X">> :> 15050) @@ (<<"Y">> :> 15050)

\* C7: the sanitized map gives every product name a token, and no two
\* names the same token.
C7_TokensUnique ==
    pc = "expanded" =>
        /\ DOMAIN sanitized_map =
              UNION {DOMAIN BreakdownOf(all_groups[i]) : i \in DOMAIN all_groups}
        /\ \A n, m \in DOMAIN sanitized_map :
              sanitized_map[n] = sanitized_map[m] => n = m

\* "a" gets a_1 after "A" took a, and the name "a_1" then finds its own
\* token taken
C7_Witness ==
    /\ pc = "expanded"
    /\ sanitized_map = (<<"A">> :> <<"a">>) @@ (<<"a">> :> <<"a","_","1">>)
                       @@ (<<"a","_","1">> :> <<"a","_","1","_","1">>)

----------------------------------------------------------------------------
(* Claims about the rows of expand_product_rows, checked under Spec        *)

\* the key ends with "_mg"
IsMgColumn(k) ==
    Len(k) >= 3 /\ SubSeq(k, Len(k) - 2, Len(k)) = <<"_","m","g">>

\* the product names of all the breakdowns of the run
AllProductNames ==
    UNION {DOMAIN BreakdownOf(all_groups[i]) : i \in DOMAIN all_groups}

\* C8: every row has exactly one {token}_mg column per distinct product
\* name of any record's breakdown, and the column holds 0 in the row of a
\* record without that product.
C8_OneColumnPerProduct ==
    pc = "expanded" =>
        /\ Len(expanded_rows) = Len(all_groups)
        /\ \A i \in DOMAIN expanded_rows :
              LET row == expanded_rows[i]
                  cols == {k \in DOMAIN row : IsMgColumn(k)}
              IN  /\ DOMAIN sanitized_map = AllProductNames
                  /\ cols = {MgColumn(sanitized_map[n]) : n \in AllProductNames}
                  /\ Cardinality(cols) = Cardinality(AllProductNames)
                  /\ \A n \in AllProductNames \ DOMAIN BreakdownOf(all_groups[i]) :
                        row[MgColumn(sanitized_map[n])] = 0

\* two records with different products whose names sanitize to the same
\* token: both rows have the columns a_mg and a_1_mg
C8_Witness ==
    /\ pc = "expanded"
    /\ Len(all_groups) = 2
    /\ DOMAIN BreakdownOf(all_groups[1]) = {<<"A">>}
    /\ DOMAIN BreakdownOf(all_groups[2]) = {<<"a">>}
    /\ expanded_rows[1][<<"a","_","m","g">>] = 1
    /\ expanded_rows[1][<<"a","_","1","_","m","g">>] = 0
    /\ expanded_rows[2][<<"a","_","m","g">>] = 0
    /\ expanded_rows[2][<<"a","_","1","_","m","g">>] = 2

\* C9 as stated: the column of a product the record has holds the amount
\* of the record's breakdown (in hundredths: 100 times the column).
C9_ColumnEqualsAmount ==
    pc = "expanded" =>
        \A i \in DOMAIN expanded_rows :
            \A n \in DOMAIN BreakdownOf(all_groups[i]) :
                Scale * expanded_rows[i][MgColumn(sanitized_map[n])]
                    = BreakdownOf(all_groups[i])[n]

\* C9, amended: the column of a product the record has holds the record's
\* amount rounded to the nearest whole number, a tie going to the even one.
C9_ColumnIsRoundedAmount ==
    pc = "expanded" =>
        \A i \in DOMAIN expanded_rows :
            \A n \in DOMAIN BreakdownOf(all_groups[i]) :
                LET v == expanded_rows[i][MgColumn(sanitized_map[n])]
                    a == BreakdownOf(all_groups[i])[n]
                IN  /\ 2 * (100 * v - a) <= 100
                    /\ 2 * (a - 100 * v) <= 100
                    /\ (2 * (100 * v - a) = 100 \/ 2 * (a - 100 * v) = 100)
                           => v % 2 = 0

\* 2.5 mg in the breakdown, 2 in the column; 1.25 mg, 1 in the column
C9_Witness ==
    /\ pc = "expanded"
    /\ Len(all_groups) = 2
    /\ BreakdownOf(all_groups[1]) = (<<"A">> :> 250)
    /\ expanded_rows[1][<<"a","_","m","g">>] = 2
    /\ BreakdownOf(all_groups[2]) = (<<"A">> :> 125)
    /\ expanded_rows[2][<<"a","_","m","g">>] = 1

\* C10 as stated: a row has every key of its record except
\* product_breakdown and products, with the record's value.
C10_AllFieldsButNestedCarried ==
    pc = "expanded" =>
        \A i \in DOMAIN expanded_rows :
            \A k \in DOMAIN all_groups[i] \ {key_product_breakdown, key_products} :
                /\ k \in DOMAIN expanded_rows[i]
                /\ expanded_rows[i][k] = all_groups[i][k]

\* C10, amended: apart from the _mg columns, a row has the keys of its
\* record except product_breakdown, products, demand_mg and demand, each
\* with the record's value: patients, buffer_pct, trial, trial_name, group
\* and group_name are carried, demand_mg is not.
C10_FieldsCarriedWithoutDemand ==
    pc = "expanded" =>
        \A i \in DOMAIN expanded_rows :
            LET row == expanded_rows[i]
                rec == all_groups[i]
                carried == {key_patients, key_buffer_pct, key_trial,
                            key_trial_name, key_group, key_group_name}
            IN  /\ carried \subseteq DOMAIN rec
                /\ {k \in DOMAIN row : ~IsMgColumn(k)} = carried
                /\ \A k \in carried : row[k] = rec[k]
                /\ {key_demand_mg, key_products, key_product_breakdown}
                       \subseteq DOMAIN rec \ DOMAIN row

\* the second group of the first trial: 2 patients, 25 % buffer, a demand_mg
\* of 2 rounded from 2.5 mg, and a row that has no demand_mg
C10_Witness ==
    /\ pc = "expanded"
    /\ Len(all_groups) = 2
    /\ all_groups[2][key_demand_mg] = 2
    /\ all_groups[2][key_patients] = 2
    /\ expanded_rows[2][key_patients] = 2
    /\ expanded_rows[2][key_buffer_pct] = 25
    /\ expanded_rows[2][key_trial] = 1
    /\ expanded_rows[2][key_group] = 2
    /\ expanded_rows[2][key_group_name] = <<"G","r","o","u","p"," ","2">>
    /\ expanded_rows[2][key_trial_name] = <<"T","r","i","a","l"," ","1">>
    /\ key_demand_mg \notin DOMAIN expanded_rows[2]

----------------------------------------------------------------------------
(* Claims about the tokens of the sanitized map, checked under SpecRows    *)

\* base followed by _k
Suffixed(base, k) == base \o <<"_">> \o IntToStr(k)

\* C11: the names are handled in lexicographic order: a name gets
\* slugify(name) when no earlier name was given that token, and otherwise
\* slugify(name)_k for the smallest k >= 1 whose token no earlier name was
\* given ("Drug A" gets drug_a and "Drug-A" gets drug_a_1).
C11_TokensInNameOrder ==
    pc = "expanded" =>
        \A n \in DOMAIN sanitized_map :
            LET earlier == {sanitized_map[m] :
                               m \in {x \in DOMAIN sanitized_map : StrLess(x, n)}}
                base == slugify(n)
                tok == sanitized_map[n]
            IN  IF base \notin earlier THEN tok = base
                ELSE \E k \in 1..Cardinality(DOMAIN sanitized_map) :
                        /\ tok = Suffixed(base, k)
                        /\ tok \notin earlier
                        /\ \A j \in 1..(k - 1) : Suffixed(base, j) \in earlier

\* the two names of the example: "Drug A" sorts before "Drug-A" and gets
\* the token without a suffix
C11_Witness ==
    /\ pc = "expanded"
    /\ sanitized_map =
          (<<"D","r","u","g"," ","A">> :> <<"d","r","u","g","_","a">>)
          @@ (<<"D","r","u","g","-","A">> :> <<"d","r","u","g","_","a","_","1">>)

----------------------------------------------------------------------------
(* Claims about slugify, checked under SpecSlug *)

SlugReturned == pc \in {"slug_returned", "slug_returned_again"}

\* the elements of s at the indices K, in their order
SubseqAt(s, K) ==
    [j \in 1..Cardinality(K) |->
        s[CHOOSE i \in K : Cardinality({k \in K : k <= i}) = j]]

\* s without its leading and trailing whitespace
DescribedStrip(s) ==
    LET inner == {i \in DOMAIN s : s[i] \notin {" ", "\t"}}
    IN  SubseqAt(s, {i \in DOMAIN s :
                        /\ \E a \in inner : a <= i
                        /\ \E b \in inner : i <= b})

\* s without the characters that are not a lowercase letter, a digit, a
\* space, an underscore or a hyphen
DescribedDelete(s) ==
    SubseqAt(s, {i \in DOMAIN s :
                    s[i] \in LowerLetters \cup Digits \cup {" ", "_", "-"}})

\* every maximal run of whitespace and hyphens of s as one underscore
DescribedReplace(s) ==
    LET run == {i \in DOMAIN s : s[i] \in {" ", "\t", "-"}}
        first == {i \in run : i - 1 \notin run}
        t == [i \in DOMAIN s |-> IF i \in run THEN "_" ELSE s[i]]
    IN  SubseqAt(t, (DOMAIN s \ run) \cup first)

DescribedToken(s) ==
    DescribedReplace(DescribedDelete(LowerStr(DescribedStrip(s))))

\* C12: the token returned by slugify is the text stripped of leading and
\* trailing whitespace, lowercased, without the characters that are not a
\* lowercase letter, digit, space, underscore or hyphen, and with every
\* maximal run of whitespace and hyphens replaced by one underscore; it
\* holds lowercase letters, digits and underscores only
C12_SlugifyAsDescribed ==
    SlugReturned =>
        /\ token = DescribedToken(text)
        /\ \A i \in DOMAIN token : token[i] \in LowerLetters \cup Digits \cup {"_"}

\* a text where every step acts: " A! -\t-b_2 " gives a_b_2
C12_Witness ==
    /\ pc = "slug_returned"
    /\ text = <<" ","A","!"," ","-","\t","-","b","_","2"," ">>
    /\ token = <<"a","_","b","_","2">>

\* C13: slugify is idempotent: handed a token it returned, it returns the
\* same token
C13_SlugifyIdempotent ==
    pc = "slug_returned_again" => token = text

\* the second call made on a token that the first call had to change
C13_Witness ==
    /\ pc = "slug_returned_again"
    /\ text = <<"a","_","b","_","2">>
    /\ token = <<"a","_","b","_","2">>

----------------------------------------------------------------------------
(* Claims about incomplete and empty groups, checked under SpecCalc *)

\* the entries of a product list that are a product with a name
NamedEntries(products) ==
    {i \in ValidEntries(products) : products[i].name # <<>>}

\* C14 as stated: an entry whose name is empty is skipped by
\* calculate_group_demand, it adds nothing to the total and makes no key
C14_EmptyNameSkipped ==
    pc = "group_returned" =>
        LET ps == params.products
            N == NamedEntries(ps)
        IN  /\ <<>> \notin DOMAIN group_by_product
            /\ DOMAIN group_by_product = {ps[i].name : i \in N}
            /\ group_total = SumOver(N, params.patients, ps, params.buffer_pct)

\* C14: a slot of the page without a name is handed on as None by
\* product_inputs and skipped by calculate_group_demand: it adds nothing to
\* the total and makes no key.  calculate_group_demand does not look at the
\* name: a ProductParams with the empty name is counted, under the key "".
C14_UnnamedSlotSkipped ==
    pc = "group_returned" =>
        IF slots # <<>>
        THEN LET N == {i \in DOMAIN slots : slots[i].name # <<>>}
             IN  /\ <<>> \notin DOMAIN group_by_product
                 /\ DOMAIN group_by_product = {slots[i].name : i \in N}
                 /\ group_total =
                       SumOver(N, params.patients, slots, params.buffer_pct)
        ELSE LET ps == params.products
                 E == ValidEntries(ps) \ NamedEntries(ps)
             IN  /\ E # {} => <<>> \in DOMAIN group_by_product
                 /\ E # {} =>
                       group_by_product[<<>>] =
                           SumOver(E, params.patients, ps, params.buffer_pct)

\* a slot without a name but with an amount, in front of a named slot
C14_Witness ==
    /\ pc = "group_returned"
    /\ Len(slots) = 2
    /\ slots[1].name = <<>>
    /\ slots[1].product_amount = 3
    /\ slots[2].name = <<"p","1">>
    /\ slots[2].product_amount = 3
    /\ params.products[1] = NoneProduct
    /\ params.patients = 2
    /\ group_total = 3000
    /\ DOMAIN group_by_product = {<<"p","1">>}

\* C15: a group without a valid product, its list empty or of None entries
\* only, gets (0.0, {}) whatever its patients and its buffer are
C15_NoValidProductGivesZero ==
    (pc = "group_returned" /\ ValidEntries(params.products) = {}) =>
        /\ group_total = 0
        /\ group_by_product = EmptyDict

\* two None entries, with patients and a buffer
C15_Witness ==
    /\ pc = "group_returned"
    /\ params.products = <<NoneProduct, NoneProduct>>
    /\ params.patients = 2
    /\ params.buffer_pct = 50
    /\ group_total = 0
    /\ group_by_product = EmptyDict

----------------------------------------------------------------------------
(* Claims about the TOTAL row, checked under Spec *)

\* the TOTAL row: the last row of the table
TotalRow == expanded_rows[Len(expanded_rows)]

\* the rows of the groups: every row but the last
GroupRows == 1..(Len(expanded_rows) - 1)

\* the unrounded total of name n over all group records
TotalOfName(n) ==
    SumOfName(n, {i \in DOMAIN all_groups : n \in DOMAIN BreakdownOf(all_groups[i])},
              all_groups)

\* the sum of column col over the rows I
RECURSIVE ColumnSum(_, _)
ColumnSum(col, I) ==
    IF I = {} THEN 0
    ELSE LET i == CHOOSE j \in I : TRUE
         IN  expanded_rows[i][col] + ColumnSum(col, I \ {i})

\* C16: in the TOTAL row the column {token(n)}_mg of every product name n
\* holds the total of n over all group records rounded to the nearest
\* integer, and the TOTAL row has the columns of the first row, no more and
\* no fewer.
C16_TotalRowHoldsRoundedTotals ==
    pc = "totalled" =>
        /\ Len(expanded_rows) = Len(all_groups) + 1
        /\ DOMAIN TotalRow = DOMAIN expanded_rows[1]
        /\ DOMAIN sanitized_map = AllProductNames
        /\ \A n \in AllProductNames :
              LET v == TotalRow[MgColumn(sanitized_map[n])]
                  a == TotalOfName(n)
              IN  /\ 2 * (100 * v - a) <= 100
                  /\ 2 * (a - 100 * v) <= 100

\* two groups with 2.5 mg and 1.25 mg of "A", and "a" in the second: the
\* TOTAL row holds 4 for "A" (3.75 mg) and 1 for "a"
C16_Witness ==
    /\ pc = "totalled"
    /\ Len(expanded_rows) = 3
    /\ product_totals = (<<"A">> :> 375) @@ (<<"a">> :> 125)
    /\ sanitized_map = (<<"A">> :> <<"a">>) @@ (<<"a">> :> <<"a","_","1">>)
    /\ TotalRow[key_group_name] = Total
    /\ TotalRow[<<"a","_","m","g">>] = 4
    /\ TotalRow[<<"a","_","1","_","m","g">>] = 1

\* C17 as stated: the value of the TOTAL row in a product column is the sum
\* of the values of the column over the rows of the groups
C17_TotalIsColumnSum ==
    pc = "totalled" =>
        \A n \in DOMAIN sanitized_map :
            LET col == MgColumn(sanitized_map[n])
            IN  TotalRow[col] = ColumnSum(col, GroupRows)

\* every group record holds a whole number of mg of name n, or none
WholeAmounts(n) ==
    \A i \in DOMAIN all_groups :
        n \in DOMAIN BreakdownOf(all_groups[i])
            => BreakdownOf(all_groups[i])[n] % 100 = 0

\* C17: the value of the TOTAL row in a product column is the rounded sum
\* of the unrounded amounts, not the sum of the rounded values of the
\* column: the two are equal when every amount of the product is a whole
\* number of mg, and differ by at most (rows + 1) / 2 otherwise.
C17_TotalNearColumnSum ==
    pc = "totalled" =>
        \A n \in DOMAIN sanitized_map :
            LET col == MgColumn(sanitized_map[n])
                t == TotalRow[col]
                c == ColumnSum(col, GroupRows)
            IN  /\ WholeAmounts(n) => t = c
                /\ 2 * (t - c) <= Len(all_groups) + 1
                /\ 2 * (c - t) <= Len(all_groups) + 1

\* 2.5 mg and 1.25 mg: the column holds 2 and 1, the TOTAL row 4
C17_Witness ==
    /\ pc = "totalled"
    /\ Len(expanded_rows) = 3
    /\ BreakdownOf(all_groups[1]) = (<<"A">> :> 250)
    /\ BreakdownOf(all_groups[2]) = (<<"A">> :> 125)
    /\ expanded_rows[1][<<"a","_","m","g">>] = 2
    /\ expanded_rows[2][<<"a","_","m","g">>] = 1
    /\ TotalRow[<<"a","_","m","g">>] = 4

----------------------------------------------------------------------------
(* Claim about the Product Totals Summary, checked under SpecUI *)

\* C18 as stated: at the end of a run in which a named product exists, the
\* Product Totals Summary has been drawn if and only if the last show or
\* hide action of the user, the interaction that triggered the run
\* included, is a show action ("Calculate totals" or a change of the
\* number of trials); without such an action since the start of the
\* session or its reset it has not been drawn.
C18_SummaryDrawnIffLastActionShows ==
    (pc = "idle" /\ product_totals # EmptyDict) =>
        (totals_rendered <=> last_action = "show")

\* the run triggered by "Calculate totals" with a named product: the flag
\* is set at the end of the run, after the summary was left out
C18_PressNotYetDrawn ==
    /\ pc = "idle"
    /\ event = "calculate_totals_btn"
    /\ product_totals # EmptyDict
    /\ last_action = "show"
    /\ ~totals_rendered
    /\ session_state["_show_totals"] = TRUE

====
